---- MODULE Spec2Model ----
(***************************************************************************)
(* Memory Scramble board (src/src/board.py): the grid of cards, the player *)
(* registry, the version counter, and the flip / look / map / watch        *)
(* operations with the response each call ends with.                       *)
(*                                                                         *)
(* Every `async with self.lock` section of the code is one atomic action.  *)
(* A flip is the sequence of its lock sections, and calls of different     *)
(* players interleave between sections (a coroutine can be suspended when  *)
(* it acquires the lock, and at the sleep of rule 1-D).  The lock is        *)
(* contended when a transform of map_cards blocks while the lock is held.  *)
(* A caller is a client that has at most one call in flight; every player  *)
(* has a caller of its own, and a second caller of player P1 issues calls  *)
(* that overlap the calls of the first when the run allows it.             *)
(*                                                                         *)
(* The version only grows, so the model explores the states up to a        *)
(* highest version: with every interleaving of the calls issued up to      *)
(* MaxVersion, with the calls issued one after the other up to             *)
(* MaxVersionSeq, and along scripted runs that go further.                 *)
(***************************************************************************)
EXTENDS Integers, Sequences, FiniteSets, TLC

VARIABLES
    rows,           \* Board.rows
    cols,           \* Board.cols
    initial_cards,  \* Board.initial_cards, row-major
    grid,           \* Board.grid: position <<r, c>> -> Card
    players,        \* Board.players: registered player id -> PlayerState
    version,        \* Board.version
    pc,             \* per caller: the lock section its call in flight runs next
    target,         \* per caller: (row, col) of its flip in flight
    ps_matched,     \* per caller: the object player_state of flip's second section
    wait_time,      \* per caller: wait_time of _flip_first_card
    start_version,  \* per caller: start_version of watch
    elapsed,        \* per caller: elapsed of watch, in polls
    timeout,        \* per caller: timeout of watch, in polls
    result,         \* what the call that ended in the last step returned or raised
    completed,      \* matched pairs discharged since the last renewal (history)
    renewals,       \* number of times the board was renewed (history)
    sched           \* how the callers issue their calls (fixed by the initial state)

vars == <<rows, cols, initial_cards, grid, players, version, pc, target,
          ps_matched, wait_time, start_version, elapsed, timeout, result,
          completed, renewals, sched>>

\* The locals of the watch calls in flight.
watching == <<start_version, elapsed, timeout>>

---------------------------------------------------------------------------
(* Bounds and inputs *)

\* Highest version at which a call is issued when the calls of the players
\* interleave; the calls issued run to their end.
MaxVersion == 3

\* Highest version explored when calls are issued one after the other.
MaxVersionSeq == 5

\* Versions explored from the last call of a scripted run on.
MaxVersionAfter == 4

\* Versions at which calls are issued in the runs checked for termination
\* (from the start, and from the end of a scripted run on).
MaxVersionLive == 2

\* Longest timeout of a watch call, in polls.
MaxTimeout == 2

\* Versions at which calls are issued in the runs with overlapping calls of
\* one player (from the start, and from the end of a scripted run on).
MaxVersionOverlap == 1

Players == {"P1", "P2"}

\* The clients: one per player, and a second client that uses the player id
\* P1.
Callers == Players \cup {"P1'"}

\* The player id a caller passes to the board.
PlayerOf(k) == IF k \in Players THEN k ELSE "P1"

Labels == {"A", "B"}

None == "None"

\* Board files the model is constructed from (parse_from_file).
Boards == { [rows |-> 2, cols |-> 2, cards |-> <<"A", "A", "B", "B">>] }

\* max_wait / poll_interval of _flip_first_card.
max_wait == 30

poll_interval == 1

\* poll_interval of watch: elapsed and timeout are counted in polls (0.5 s).
watch_poll_interval == 1

\* Timeouts the watch calls are issued with.
Timeouts == 0 .. MaxTimeout

NoTarget == <<-1, -1>>

\* The object player_state that flip holds from its second lock section on:
\* the entry of the registry (its matched flag is read where it is used), or
\* an entry that a renewal has dropped from the registry, with the matched
\* flag it had then.
Registered == "registered"

Dropped(matched) == IF matched THEN "matched" ELSE "unmatched"

---------------------------------------------------------------------------
(* Data model *)

Pos == (0 .. rows - 1) \X (0 .. cols - 1)

\* Card(label): face down, no controller, not removed.
Card(label) ==
    [label |-> label, face_up |-> FALSE, controller |-> None, removed |-> FALSE]

\* PlayerState(): nothing controlled, nothing remembered, not matched.
PlayerState ==
    [controlled_cards |-> <<>>, previous_controled_cards |-> <<>>, matched |-> FALSE]

\* _initialize_grid: card (r, c) gets initial_cards[r * cols + c].
InitializeGrid(nrows, ncols, cards) ==
    [pos \in (0 .. nrows - 1) \X (0 .. ncols - 1) |->
        Card(cards[pos[1] * ncols + pos[2] + 1])]

\* _get_player_state: the registry with an entry for p (created when absent).
GetPlayerState(reg, p) ==
    IF p \in DOMAIN reg
    THEN reg
    ELSE [q \in DOMAIN reg \cup {p} |-> IF q = p THEN PlayerState ELSE reg[q]]

\* _count_remaining_cards
CountRemainingCards(g) == Cardinality({pos \in DOMAIN g : ~g[pos].removed})

Range(s) == {s[i] : i \in 1 .. Len(s)}

\* A rendering that tests face_up before removed.
LookTokenDownFirst(g, p, pos) ==
    IF ~g[pos].face_up THEN "down"
    ELSE IF g[pos].removed THEN "none"
    ELSE IF g[pos].controller = p THEN "my " \o g[pos].label
    ELSE "up " \o g[pos].label

\* One line of _look_internal for the card at pos, rendered for player p.
LookToken(g, p, pos) ==
    IF g[pos].removed THEN "none"
    ELSE IF ~g[pos].face_up THEN "down"
    ELSE IF g[pos].controller = p THEN "my " \o g[pos].label
    ELSE "up " \o g[pos].label

\* _look_internal: the list `lines` that is joined with newlines: the header,
\* then one token per card, the rows from first to last and the columns of a
\* row from first to last.
LookInternal(g, p) ==
    <<ToString(rows) \o "x" \o ToString(cols)>> \o
        [i \in 1 .. rows * cols |-> LookToken(g, p, <<(i - 1) \div cols, (i - 1) % cols>>)]

\* No call ended in the step.
NoResult == [p |-> None, op |-> "none", error |-> "none", snapshot |-> <<>>]

\* The call op of p ended: it returned the snapshot of g rendered for p
\* (error = "ok") or raised the error.
Result(p, op, error, g) ==
    [p |-> p, op |-> op, error |-> error,
     snapshot |-> IF error = "ok" THEN LookInternal(g, p) ELSE <<>>]

---------------------------------------------------------------------------
(* Initial state: Board.__init__ on a parsed board file; no call in flight *)

InitBoard ==
    /\ \E b \in Boards :
        /\ rows = b.rows
        /\ cols = b.cols
        /\ initial_cards = b.cards
        /\ grid = InitializeGrid(b.rows, b.cols, b.cards)
    /\ players = [q \in {} |-> PlayerState]
    /\ version = 0
    /\ pc = [k \in Callers |-> "idle"]
    /\ target = [k \in Callers |-> NoTarget]
    /\ ps_matched = [k \in Callers |-> Dropped(FALSE)]
    /\ wait_time = [k \in Callers |-> 0]
    /\ start_version = [k \in Callers |-> 0]
    /\ elapsed = [k \in Callers |-> 0]
    /\ timeout = [k \in Callers |-> 0]
    /\ result = NoResult
    /\ completed = 0
    /\ renewals = 0

Immutable == UNCHANGED <<rows, cols, initial_cards>>

---------------------------------------------------------------------------
(* Helpers of the flip rules *)

\* A renewal that keeps the labels the cards have.
RenewedGridKeepsLabels == [pos \in DOMAIN grid |-> Card(grid[pos].label)]

\* _renew_board: a fresh grid from initial_cards (the registry is cleared and
\* the version advanced by the caller's action below).
RenewedGrid == InitializeGrid(rows, cols, initial_cards)

\* _flip_first_card, the loop over previous_controled_cards: every remembered
\* card is set face down.
FaceDownPrevious(g, prev) ==
    [pos \in DOMAIN g |->
        IF pos \in Range(prev) THEN [g[pos] EXCEPT !.face_up = FALSE] ELSE g[pos]]

\* A first flip that takes the card without turning it up.
TakeControlAsFound(g, p, pos) ==
    [g EXCEPT ![pos].controller = p]

\* Rules 1-B / 1-C: the card is face up and controlled by p.
TakeControl(g, p, pos) ==
    [g EXCEPT ![pos].face_up = TRUE, ![pos].controller = p]

\* A first flip that adds the card to the controlled cards it finds.
FirstControlledAppends(ps, pos) ==
    [ps EXCEPT !.controlled_cards = Append(@, pos)]

\* Rules 1-B / 1-C: player_state.controlled_cards = [(row, col)].
FirstControlled(ps, pos) ==
    [ps EXCEPT !.controlled_cards = <<pos>>]

\* _cleanup_previous_cards: the cards of the list that the loop removes.
CleanupTargets(g, cs) == {pos \in Range(cs) : ~g[pos].removed}

\* _cleanup_previous_cards: each such card is removed, face down, uncontrolled.
CleanupPreviousCards(g, cs) ==
    [pos \in DOMAIN g |->
        IF pos \in CleanupTargets(g, cs)
        THEN [g[pos] EXCEPT !.removed = TRUE, !.face_up = FALSE, !.controller = None]
        ELSE g[pos]]

\* _turn_down_card: the cards of the list that the loop turns face down.
TurnDownTargets(g, cs) ==
    {pos \in Range(cs) : ~g[pos].removed /\ g[pos].face_up /\ g[pos].controller = None}

\* _turn_down_card
TurnDownCard(g, cs) ==
    [pos \in DOMAIN g |->
        IF pos \in TurnDownTargets(g, cs) THEN [g[pos] EXCEPT !.face_up = FALSE] ELSE g[pos]]

\* Rules 2-A / 2-B: first_card.controller = None, the player's turn is over.
Relinquished(ps) ==
    [ps EXCEPT !.controlled_cards = <<>>, !.matched = FALSE]

\* Rule 2-D: controlled_cards = [first_pos, (row, col)], matched = True.
Matched(ps, first_pos, pos) ==
    [ps EXCEPT !.controlled_cards = <<first_pos, pos>>, !.matched = TRUE]

\* Rule 2-E: the two cards are remembered, nothing is controlled.
NotMatched(ps, first_pos, pos) ==
    [ps EXCEPT !.previous_controled_cards = <<first_pos, pos>>,
               !.controlled_cards = <<>>, !.matched = FALSE]

\* The caller's transform of /replace: to_card if card == from_card else card.
ReplacementFunc(from, to, label) == IF label = from THEN to ELSE label

\* A map that also transforms the labels of the removed cards.
MapCardsAll(g, from, to) ==
    [pos \in DOMAIN g |-> [g[pos] EXCEPT !.label = ReplacementFunc(from, to, g[pos].label)]]

\* map_cards: the transform applied to the label of every card not removed.
MapCards(g, from, to) ==
    [pos \in DOMAIN g |->
        IF g[pos].removed THEN g[pos]
        ELSE [g[pos] EXCEPT !.label = ReplacementFunc(from, to, g[pos].label)]]

\* The call of caller k in flight ends (it returns or raises).
Returns(k) ==
    /\ pc' = [pc EXCEPT ![k] = "idle"]
    /\ target' = [target EXCEPT ![k] = NoTarget]
    /\ wait_time' = [wait_time EXCEPT ![k] = 0]

---------------------------------------------------------------------------
(* The rule a flip falls under, and how the call ends under it *)

\* A first flip without the test of rule 1-A.
FirstRuleIgnoresRemoved(g, pos) ==
    IF ~g[pos].face_up THEN "1-B"
    ELSE IF g[pos].controller = None THEN "1-C"
    ELSE "1-D"

\* _flip_first_card: the rule the target card falls under (after the
\* remembered cards were set face down).
FirstRule(g, pos) ==
    IF g[pos].removed THEN "1-A"
    ELSE IF ~g[pos].face_up THEN "1-B"
    ELSE IF g[pos].controller = None THEN "1-C"
    ELSE "1-D"

\* _flip_second_card: the rule the target card falls under, in the order of
\* the code's tests.
SecondRule(g, ps, p, pos) ==
    IF ps.controlled_cards = <<>> THEN "IndexError"
    ELSE IF g[pos].removed THEN "2-A"
    ELSE IF g[pos].face_up /\ g[pos].controller = p THEN "own"
    ELSE IF g[pos].face_up /\ g[pos].controller # None THEN "2-B"
    ELSE IF g[ps.controlled_cards[1]].label = g[pos].label THEN "2-D"
    ELSE "2-E"

\* What the caller gets under each rule: the snapshot ("ok") or the error
\* raised.
Raised(rule) ==
    CASE rule \in {"1-A", "2-A"} -> "CardRemoved"
      [] rule \in {"own", "2-B"} -> "ControlledByOther"
      [] rule = "1-D"            -> "Timeout"
      [] rule = "IndexError"     -> "IndexError"
      [] OTHER                   -> "ok"

---------------------------------------------------------------------------
(* Callers *)

FlipCall(p, r, c) == [op |-> "flip", p |-> p, r |-> r, c |-> c]

LookCall(p) == [op |-> "look", p |-> p]

MapCall(p, from, to) == [op |-> "map", p |-> p, from |-> from, to |-> to]

WatchCall(p, t) == [op |-> "watch", p |-> p, timeout |-> t]

\* A call is issued while the explored versions are not exhausted; a scripted
\* run is played to its end first.
MayStep == sched.script # <<>> \/ version < sched.cap

\* A call in flight runs its next lock section (in a run to completion, also
\* when no further call is issued).
MayRun == sched.finish \/ MayStep

\* The call may be issued: in a sequential run only when no call is in
\* flight, in a scripted run only when it is the next call of the script.
MayCall(call) ==
    /\ MayStep
    /\ sched.sequential => \A q \in Callers : pc[q] = "idle"
    /\ sched.script # <<>> => Head(sched.script) = call

\* The caller has no call in flight and may issue one: the second caller of
\* a player issues calls only in a run with overlapping calls, and only
\* while the first caller of the player has a call in flight.
MayIssue(k) ==
    /\ pc[k] = "idle"
    /\ k \notin Players => sched.overlap /\ pc[PlayerOf(k)] # "idle"

\* The call is issued: a scripted run moves on, and after its last call
\* sched.after more versions are explored.
Issued ==
    sched' = IF sched.script = <<>> THEN sched
             ELSE [sched EXCEPT !.script = Tail(@),
                                !.cap = IF Len(sched.script) = 1
                                        THEN version + sched.after ELSE @]

---------------------------------------------------------------------------
(* Operations *)

\* A range check that lets the position one past the last through.
InRangeInclusive(r, c) == 0 <= r /\ r <= rows /\ 0 <= c /\ c <= cols

\* flip, the range check on (row, col).
InRange(r, c) == 0 <= r /\ r < rows /\ 0 <= c /\ c < cols

\* flip, the range check: a position outside the board raises ValueError
\* before anything is read or written.
FlipInvalid(k, r, c) ==
    /\ MayIssue(k)
    /\ MayCall(FlipCall(PlayerOf(k), r, c))
    /\ ~InRange(r, c)
    /\ Issued
    /\ result' = Result(PlayerOf(k), "flip", "InvalidPosition", grid)
    /\ UNCHANGED <<grid, players, version, pc, target, ps_matched, wait_time, completed, renewals>>
    /\ UNCHANGED watching
    /\ Immutable

\* flip, first lock section: the board is renewed when at most one card is
\* left, and the player's entry is created.  A renewal drops the entries of
\* the registry: a flip that holds one keeps it as it is.
FlipBegin(k, r, c) ==
    /\ MayIssue(k)
    /\ MayCall(FlipCall(PlayerOf(k), r, c))
    /\ InRange(r, c)
    /\ Issued
    /\ LET p     == PlayerOf(k)
           renew == CountRemainingCards(grid) <= 1
           reg   == IF renew THEN [q \in {} |-> PlayerState] ELSE players
       IN  /\ grid' = IF renew THEN RenewedGrid ELSE grid
           /\ players' = GetPlayerState(reg, p)
           /\ version' = IF renew THEN version + 1 ELSE version
           /\ completed' = IF renew THEN 0 ELSE completed
           /\ renewals' = IF renew THEN renewals + 1 ELSE renewals
           /\ ps_matched' =
                  IF renew
                  THEN [j \in Callers |->
                           IF ps_matched[j] = Registered
                           THEN Dropped(players[PlayerOf(j)].matched)
                           ELSE ps_matched[j]]
                  ELSE ps_matched
    /\ pc' = [pc EXCEPT ![k] = "dispatch"]
    /\ target' = [target EXCEPT ![k] = <<r, c>>]
    /\ result' = NoResult
    /\ UNCHANGED wait_time
    /\ UNCHANGED watching
    /\ Immutable

\* flip, second lock section: num_controlled decides the branch taken, and
\* player_state (whose matched flag the third branch reads) is the entry
\* found here.
FlipDispatch(k) ==
    /\ pc[k] = "dispatch"
    /\ MayRun
    /\ LET p   == PlayerOf(k)
           reg == GetPlayerState(players, p)
           num_controlled == Len(reg[p].controlled_cards)
       IN  /\ players' = reg
           /\ pc' = [pc EXCEPT ![k] =
                        IF num_controlled = 0 THEN "first"
                        ELSE IF num_controlled = 1 THEN "second"
                        ELSE "discharge"]
           /\ ps_matched' = [ps_matched EXCEPT ![k] =
                                IF num_controlled >= 2 THEN Registered ELSE Dropped(FALSE)]
    /\ result' = NoResult
    /\ UNCHANGED <<grid, version, target, wait_time, completed, renewals, sched>>
    /\ UNCHANGED watching
    /\ Immutable

\* flip, the branch for two controlled cards: _turn_down_card, then
\* _cleanup_previous_cards when player_state, the entry found by the second
\* section, says matched; _flip_first_card follows in its own lock section.
\* The history variable counts a matched pair as discharged when the cleanup
\* removes a card.
FlipDischarge(k) ==
    /\ pc[k] = "discharge"
    /\ MayRun
    /\ LET p   == PlayerOf(k)
           reg == GetPlayerState(players, p)
           cs  == reg[p].controlled_cards
           matched == IF ps_matched[k] = Registered THEN reg[p].matched
                      ELSE ps_matched[k] = Dropped(TRUE)
           g1  == TurnDownCard(grid, cs)
           n1  == Cardinality(TurnDownTargets(grid, cs))
           g2  == IF matched THEN CleanupPreviousCards(g1, cs) ELSE g1
           n2  == IF matched THEN Cardinality(CleanupTargets(g1, cs)) ELSE 0
       IN  /\ players' = reg
           /\ grid' = g2
           /\ version' = version + n1 + n2
           /\ completed' = IF n2 > 0 THEN completed + 1 ELSE completed
           /\ UNCHANGED renewals
    /\ pc' = [pc EXCEPT ![k] = "first"]
    /\ ps_matched' = [ps_matched EXCEPT ![k] = Dropped(FALSE)]
    /\ result' = NoResult
    /\ UNCHANGED <<target, wait_time, sched>>
    /\ UNCHANGED watching
    /\ Immutable

\* A wait of rule 1-D that does not count the time slept.
WaitedNothing(w) == w

\* _flip_first_card: wait_time after one more sleep of rule 1-D.
Waited(w) == w + poll_interval

\* _flip_first_card: one pass of the loop, under the lock.
FlipFirst(k) ==
    /\ pc[k] = "first"
    /\ MayRun
    /\ LET p    == PlayerOf(k)
           reg  == GetPlayerState(players, p)
           pos  == target[k]
           g1   == FaceDownPrevious(grid, reg[p].previous_controled_cards)
           rule == FirstRule(g1, pos)
       IN  CASE rule = "1-A" ->
                /\ grid' = g1
                /\ players' = reg
                /\ version' = version
                /\ result' = Result(p, "flip", Raised(rule), g1)
                /\ Returns(k)
             [] rule \in {"1-B", "1-C"} ->
                /\ grid' = TakeControl(g1, p, pos)
                /\ players' = [reg EXCEPT ![p] = FirstControlled(reg[p], pos)]
                /\ version' = version + 1
                /\ result' = Result(p, "flip", Raised(rule), TakeControl(g1, p, pos))
                /\ Returns(k)
             [] rule = "1-D" ->
                \* sleep poll_interval and look again, until max_wait
                /\ grid' = g1
                /\ players' = reg
                /\ version' = version
                /\ IF Waited(wait_time[k]) < max_wait
                   THEN /\ wait_time' = [wait_time EXCEPT ![k] = Waited(@)]
                        /\ result' = NoResult
                        /\ UNCHANGED <<pc, target>>
                   ELSE /\ result' = Result(p, "flip", Raised(rule), g1)
                        /\ Returns(k)
    /\ UNCHANGED <<ps_matched, completed, renewals, sched>>
    /\ UNCHANGED watching
    /\ Immutable

\* _flip_second_card, under the lock.
FlipSecond(k) ==
    /\ pc[k] = "second"
    /\ MayRun
    /\ LET p    == PlayerOf(k)
           reg  == GetPlayerState(players, p)
           ps   == reg[p]
           pos  == target[k]
           rule == SecondRule(grid, ps, p, pos)
       IN  /\ CASE rule \in {"IndexError", "own"} ->
                    /\ grid' = grid
                    /\ players' = reg
                    /\ version' = version
                 [] rule \in {"2-A", "2-B"} ->
                    /\ grid' = [grid EXCEPT ![ps.controlled_cards[1]].controller = None]
                    /\ players' = [reg EXCEPT ![p] = Relinquished(ps)]
                    /\ version' = version + 1
                 [] rule = "2-D" ->
                    /\ grid' = [grid EXCEPT ![pos].face_up = TRUE, ![pos].controller = p]
                    /\ players' = [reg EXCEPT ![p] = Matched(ps, ps.controlled_cards[1], pos)]
                    /\ version' = version + (IF grid[pos].face_up THEN 0 ELSE 1) + 1
                 [] rule = "2-E" ->
                    /\ grid' = [grid EXCEPT ![pos].face_up = TRUE,
                                            ![pos].controller = None,
                                            ![ps.controlled_cards[1]].controller = None]
                    /\ players' = [reg EXCEPT ![p] = NotMatched(ps, ps.controlled_cards[1], pos)]
                    /\ version' = version + (IF grid[pos].face_up THEN 0 ELSE 1) + 1
           /\ result' = Result(p, "flip", Raised(rule), grid')
    /\ Returns(k)
    /\ UNCHANGED <<ps_matched, completed, renewals, sched>>
    /\ UNCHANGED watching
    /\ Immutable

\* A look that registers the player it renders for.
LookRegisters(k) ==
    /\ MayIssue(k)
    /\ MayCall(LookCall(PlayerOf(k)))
    /\ Issued
    /\ players' = GetPlayerState(players, PlayerOf(k))
    /\ result' = Result(PlayerOf(k), "look", "ok", grid)
    /\ UNCHANGED <<grid, version, pc, target, ps_matched, wait_time, completed, renewals>>
    /\ UNCHANGED watching
    /\ Immutable

\* look: the snapshot is read under the lock; nothing is written.
Look(k) ==
    /\ MayIssue(k)
    /\ MayCall(LookCall(PlayerOf(k)))
    /\ Issued
    /\ result' = Result(PlayerOf(k), "look", "ok", grid)
    /\ UNCHANGED <<grid, players, version, pc, target, ps_matched, wait_time, completed, renewals>>
    /\ UNCHANGED watching
    /\ Immutable

\* map_cards with the transform of /replace, under the lock.
Map(k, from, to) ==
    /\ MayIssue(k)
    /\ MayCall(MapCall(PlayerOf(k), from, to))
    /\ Issued
    /\ grid' = MapCards(grid, from, to)
    /\ version' = version + 1
    /\ result' = Result(PlayerOf(k), "map", "ok", grid')
    /\ UNCHANGED <<players, pc, target, ps_matched, wait_time, completed, renewals>>
    /\ UNCHANGED watching
    /\ Immutable

\* The watch call of caller k in flight ends with look.
WatchReturns(k) ==
    /\ pc' = [pc EXCEPT ![k] = "idle"]
    /\ start_version' = [start_version EXCEPT ![k] = 0]
    /\ elapsed' = [elapsed EXCEPT ![k] = 0]
    /\ timeout' = [timeout EXCEPT ![k] = 0]
    /\ result' = Result(PlayerOf(k), "watch", "ok", grid)

\* watch, up to its first sleep: start_version is read; with a timeout that
\* leaves no time for a poll the loop is skipped.
WatchBegin(k, t) ==
    /\ MayIssue(k)
    /\ MayCall(WatchCall(PlayerOf(k), t))
    /\ Issued
    /\ IF 0 < t
       THEN /\ pc' = [pc EXCEPT ![k] = "watch"]
            /\ start_version' = [start_version EXCEPT ![k] = version]
            /\ elapsed' = [elapsed EXCEPT ![k] = 0]
            /\ timeout' = [timeout EXCEPT ![k] = t]
            /\ result' = NoResult
       ELSE WatchReturns(k)
    /\ UNCHANGED <<grid, players, version, target, ps_matched, wait_time, completed, renewals>>
    /\ Immutable

\* A watch that ends at its first poll.
WatchOverAtOnce(k) == TRUE

\* watch, after a sleep: the version differs from start_version, or the loop
\* ends because elapsed has reached the timeout.
WatchOver(k) ==
    version # start_version[k] \/ ~(elapsed[k] + watch_poll_interval < timeout[k])

\* watch, one pass of the loop after its sleep: it ends with look when the
\* version differs from start_version or the timeout has elapsed.
WatchPoll(k) ==
    /\ pc[k] = "watch"
    /\ MayRun
    /\ IF WatchOver(k)
       THEN WatchReturns(k)
       ELSE /\ elapsed' = [elapsed EXCEPT ![k] = @ + watch_poll_interval]
            /\ result' = NoResult
            /\ UNCHANGED <<pc, start_version, timeout>>
    /\ UNCHANGED <<grid, players, version, target, ps_matched, wait_time, completed, renewals, sched>>
    /\ Immutable

---------------------------------------------------------------------------
(* Specifications *)

\* A call in flight of caller k runs its next lock section.
Continue(k) ==
    \/ FlipDispatch(k)
    \/ FlipDischarge(k)
    \/ FlipFirst(k)
    \/ FlipSecond(k)
    \/ WatchPoll(k)

Next ==
    \E k \in Callers :
        \/ \E r \in -1 .. rows, c \in -1 .. cols : FlipInvalid(k, r, c)
        \/ \E r \in -1 .. rows, c \in -1 .. cols : FlipBegin(k, r, c)
        \/ FlipDispatch(k)
        \/ FlipDischarge(k)
        \/ FlipFirst(k)
        \/ FlipSecond(k)
        \/ Look(k)
        \/ \E from \in Labels, to \in Labels : Map(k, from, to)
        \/ \E t \in Timeouts : WatchBegin(k, t)
        \/ WatchPoll(k)

\* Calls of different players interleave between lock sections, and every
\* call issued runs to its end.
Interleaved ==
    [sequential |-> FALSE, cap |-> MaxVersion, script |-> <<>>, finish |-> TRUE,
     after |-> 0, overlap |-> FALSE]

\* Calls are issued one after the other: a call runs to its end before the
\* next one starts.
Sequential ==
    [sequential |-> TRUE, cap |-> MaxVersionSeq, script |-> <<>>, finish |-> FALSE,
     after |-> 0, overlap |-> FALSE]

\* A sequential run that starts with the given calls.
Scripted(calls) ==
    [sequential |-> TRUE, cap |-> 0, script |-> calls, finish |-> FALSE,
     after |-> MaxVersionAfter, overlap |-> FALSE]

\* A run that starts with the given calls, issued in this order, and goes on
\* with interleaved calls that run to their end.
InterleavedAfter(calls) ==
    [sequential |-> FALSE, cap |-> 0, script |-> calls, finish |-> TRUE,
     after |-> MaxVersionLive, overlap |-> FALSE]

\* Interleaved calls that run to their end, with calls of a second caller of
\* P1 that overlap the calls of the first.
Overlapped ==
    [sequential |-> FALSE, cap |-> MaxVersionOverlap, script |-> <<>>, finish |-> TRUE,
     after |-> 0, overlap |-> TRUE]

\* A run that starts with the given calls, issued in this order, and goes on
\* with interleaved and overlapping calls that run to their end.
OverlappedAfter(calls) ==
    [sequential |-> FALSE, cap |-> 0, script |-> calls, finish |-> TRUE,
     after |-> MaxVersionOverlap, overlap |-> TRUE]

\* P2 turns up (0,0) and (1,0), which do not match; P1 takes (0,0); P2 starts
\* its next turn on (1,1); P1 flips (0,0) again as its second card.
ScriptSameCard ==
    << FlipCall("P2", 0, 0), FlipCall("P2", 1, 0), FlipCall("P1", 0, 0),
       FlipCall("P2", 1, 1), FlipCall("P1", 0, 0) >>

\* P1 turns up (0,0) and (1,0), which do not match; P2 matches (0,0) and
\* (0,1); P1 starts its next turn on (0,0); P2 starts its next turn on (1,1);
\* every B becomes an A; P1 flips (1,0) as its second card.
ScriptShared ==
    << FlipCall("P1", 0, 0), FlipCall("P1", 1, 0), FlipCall("P2", 0, 0),
       FlipCall("P2", 0, 1), FlipCall("P1", 0, 0), FlipCall("P2", 1, 1),
       MapCall("P1", "B", "A"), FlipCall("P1", 1, 0) >>

InitSeq == InitBoard /\ sched = Sequential

\* The calls are issued one after the other.
SpecSeq == InitSeq /\ [][Next]_vars

\* P1 matches (0,0) and (0,1), then (1,0) and (1,1), and starts a turn on
\* (0,0): no card is left.
ScriptAllMatched ==
    << FlipCall("P1", 0, 0), FlipCall("P1", 0, 1), FlipCall("P1", 1, 0),
       FlipCall("P1", 1, 1), FlipCall("P1", 0, 0) >>

\* P2 turns up (0,0) and (1,0), which do not match; P1 matches (0,0) and
\* (0,1), starts its next turn on (1,1) and matches it with (1,0); P2 flips
\* (0,0), which P1's pair has left removed.
ScriptRemovedTarget ==
    << FlipCall("P2", 0, 0), FlipCall("P2", 1, 0), FlipCall("P1", 0, 0),
       FlipCall("P1", 0, 1), FlipCall("P1", 1, 1), FlipCall("P1", 1, 0),
       FlipCall("P2", 0, 0) >>

\* P2 turns up (0,0) and (1,0), which do not match; P1 takes (0,0); P2 starts
\* its next turn on (1,1).
ScriptTurnedDown ==
    << FlipCall("P2", 0, 0), FlipCall("P2", 1, 0), FlipCall("P1", 0, 0),
       FlipCall("P2", 1, 1) >>

InitScript ==
    InitBoard /\ sched \in { Scripted(ScriptSameCard), Scripted(ScriptShared),
                             Scripted(ScriptAllMatched), Scripted(ScriptRemovedTarget),
                             Scripted(ScriptTurnedDown) }

\* The calls are issued one after the other, a script first.
SpecScript == InitScript /\ [][Next]_vars

\* P1 matches (0,0) and (0,1) and starts its next turn on (1,0).
ScriptPair == << FlipCall("P1", 0, 0), FlipCall("P1", 0, 1), FlipCall("P1", 1, 0) >>

InitLive ==
    InitBoard /\ sched \in { [Interleaved EXCEPT !.cap = MaxVersionLive],
                             InterleavedAfter(ScriptPair) }

Init ==
    \/ InitBoard /\ sched \in {Interleaved, Sequential, InterleavedAfter(ScriptPair)}
    \/ InitScript

\* Every way of issuing the calls.
Spec == Init /\ [][Next]_vars

\* Interleaved calls that run to their end.
SpecEnd == InitLive /\ [][Next]_vars

\* P2 takes (0,0) and starts its second flip on (1,1); P1 flips (0,0).
ScriptContended ==
    << FlipCall("P2", 0, 0), FlipCall("P2", 1, 1), FlipCall("P1", 0, 0) >>

InitOverlap ==
    InitBoard /\ sched \in { Overlapped, OverlappedAfter(ScriptContended),
                             OverlappedAfter(ScriptPair) }

\* Interleaved calls, two callers using the player id P1.
SpecOverlap == InitOverlap /\ [][Next]_vars

\* The event loop resumes every coroutine that is ready: a call in flight is
\* not left waiting for the lock or asleep forever.
Fairness == \A p \in Players : WF_vars(Continue(p))

\* Interleaved calls under a fair event loop.
SpecLive == InitLive /\ [][Next]_vars /\ Fairness

---------------------------------------------------------------------------
(* Vocabulary of the properties *)

\* No call is in flight: the state between two operations.
Quiet == \A p \in Players : pc[p] = "idle"

\* The entry of p, as _get_player_state would return it.
StateOf(p) == GetPlayerState(players, p)[p]

\* This step is a pass of p's _flip_first_card loop.
FirstPassOf(p) ==
    pc[p] = "first" /\ (pc'[p] = "idle" \/ wait_time'[p] # wait_time[p])

\* This step is p's _flip_second_card.
SecondOf(p) == pc[p] = "second" /\ pc'[p] = "idle"

\* This step is the release of p's two cards at the start of its flip.
DischargeOf(p) == pc[p] = "discharge" /\ pc'[p] = "first"

\* This step renews the board.
Renewal ==
    /\ CountRemainingCards(grid) <= 1
    /\ \E p \in Players : pc[p] = "idle" /\ pc'[p] = "dispatch"

\* This step is p's _flip_second_card, made while p controls exactly one
\* card (it is listed and has p as its controller) on another card.
SecondOnOther(p) ==
    /\ SecondOf(p)
    /\ Len(StateOf(p).controlled_cards) = 1
    /\ StateOf(p).controlled_cards[1] # target[p]
    /\ grid[StateOf(p).controlled_cards[1]].controller = p

\* The card p controls when it makes its second flip.
FirstOf(p) == StateOf(p).controlled_cards[1]

---------------------------------------------------------------------------
(* Properties *)

\* C1: between operations, every position listed in a player's controlled
\* cards refers to a card whose controller is that player.
C1_ControlledListedAreControlled ==
    Quiet =>
        \A p \in DOMAIN players :
            \A pos \in Range(players[p].controlled_cards) : grid[pos].controller = p

\* C2: between operations, every card that has a controller is face up.
C2_ControlledIsFaceUp ==
    Quiet => \A pos \in Pos : grid[pos].controller # None => grid[pos].face_up

\* C3: after every step every removed card is face down and has no
\* controller, and a removed card stays removed unless the step renews the
\* board.
C3_RemovedStaysRemoved ==
    [][ /\ \A pos \in Pos :
              grid'[pos].removed =>
                  ~grid'[pos].face_up /\ grid'[pos].controller = None
        /\ ~Renewal => \A pos \in Pos : grid[pos].removed => grid'[pos].removed
      ]_vars

\* A flip is about to resolve a target card that has been removed.
C3_Witness ==
    \E p \in Players : pc[p] \in {"first", "second"} /\ grid[target[p]].removed

\* C4: between operations, the two cards of every player that controls two
\* cards with matched = true have equal labels.
C4_MatchedLabelsEqual ==
    Quiet =>
        \A p \in DOMAIN players :
            (Len(players[p].controlled_cards) = 2 /\ players[p].matched) =>
                grid[players[p].controlled_cards[1]].label =
                    grid[players[p].controlled_cards[2]].label

\* C5: between operations, the number of cards not removed is rows*cols minus
\* twice the number of matched pairs discharged since the last renewal.
C5_RemainingCount ==
    Quiet => CountRemainingCards(grid) = rows * cols - 2 * completed

\* C6: every player controls at most two cards.
C6_AtMostTwoControlled ==
    \A p \in DOMAIN players : Len(players[p].controlled_cards) <= 2

\* A player controls two cards and its next flip is in flight.
C6_Witness ==
    \E p \in DOMAIN players :
        Len(players[p].controlled_cards) = 2 /\ pc[p] = "first"

\* C7: the version never decreases, and every step that changes the snapshot
\* of some player strictly increases it.
C7_VersionTracksSnapshots ==
    [][ /\ version' >= version
        /\ (\E p \in Players : LookInternal(grid', p) # LookInternal(grid, p))
               => version' > version
      ]_vars

\* C8: a first flip of a player turns a card of its last unmatched pair face
\* down only if that card is controlled by nobody; a card of the pair that
\* another player controls stays face up and under that player's control.
C8_ClaimedCardLeftAlone ==
    [][ \A p \in Players :
            FirstPassOf(p) =>
                \A pos \in Range(StateOf(p).previous_controled_cards) :
                    (grid[pos].face_up /\ grid[pos].controller \notin {None, p}) =>
                        /\ grid'[pos].face_up
                        /\ grid'[pos].controller = grid[pos].controller
      ]_vars

\* C9: when a player with two controlled cards and matched = true flips, the
\* release removes both cards: the number of cards not removed drops by
\* exactly 2 and both positions render as "none" for every player.
C9_MatchedPairRemoved ==
    [][ \A p \in Players :
            (/\ DischargeOf(p)
             /\ Len(StateOf(p).controlled_cards) = 2
             /\ StateOf(p).matched) =>
                /\ CountRemainingCards(grid') = CountRemainingCards(grid) - 2
                /\ \A pos \in Range(StateOf(p).controlled_cards), q \in Players :
                       LookToken(grid', q, pos) = "none"
      ]_vars

\* C10: a second flip of a player on the one card it controls fails with
\* ControlledByOther, the player still controls exactly that card, the card
\* is face up, and the version does not advance.
C10_SameCardTwice ==
    [][ \A p \in Players :
            (/\ SecondOf(p)
             /\ StateOf(p).controlled_cards = <<target[p]>>) =>
                /\ Raised(SecondRule(grid, StateOf(p), p, target[p])) = "ControlledByOther"
                /\ players'[p].controlled_cards = <<target[p]>>
                /\ grid'[target[p]].face_up
                /\ version' = version
      ]_vars

\* C11: a pass of a first flip that finds its target face up and controlled
\* by another player leaves the controller and the flipping player's
\* controlled cards as they are and ends the call only when the wait is
\* over; a pass that finds the target removed fails with CardRemoved; a pass
\* that finds it face down, or face up with no controller, takes control.
C11_WaitsForController ==
    [][ \A q \in Players :
            FirstPassOf(q) =>
                LET card == grid[target[q]]
                IN  /\ (~card.removed /\ card.face_up /\ card.controller \notin {None, q}) =>
                           /\ grid'[target[q]].controller = card.controller
                           /\ players'[q].controlled_cards = StateOf(q).controlled_cards
                           /\ pc'[q] = "idle" => result'.error = "Timeout"
                    /\ card.removed =>
                           /\ pc'[q] = "idle"
                           /\ result'.error = "CardRemoved"
                    /\ (~card.removed /\ (~card.face_up \/ card.controller = None)) =>
                           /\ pc'[q] = "idle"
                           /\ result'.error = "ok"
                           /\ grid'[target[q]].face_up
                           /\ grid'[target[q]].controller = q
                           /\ players'[q].controlled_cards = <<target[q]>>
      ]_vars

\* C12: under a fair event loop every flip call in flight ends; the 30th
\* pass of a first flip that finds its target controlled by another player
\* fails with Timeout, no pass before the 30th does, and the pass that times
\* out changes neither the controller of a card nor the flipping player's
\* controlled cards.
C12_FlipCompletes ==
    /\ \A p \in Players :
           (pc[p] \in {"dispatch", "discharge", "first", "second"}) ~> (pc[p] = "idle")
    /\ [][ \A p \in Players :
               FirstPassOf(p) =>
                   /\ (/\ Waited(wait_time[p]) = max_wait
                       /\ ~grid[target[p]].removed
                       /\ grid[target[p]].face_up
                       /\ grid[target[p]].controller \notin {None, p}) =>
                           result'.error = "Timeout"
                   /\ result'.error = "Timeout" =>
                           /\ Waited(wait_time[p]) = max_wait
                           /\ pc'[p] = "idle"
                           /\ \A pos \in Pos : grid'[pos].controller = grid[pos].controller
                           /\ players'[p].controlled_cards = StateOf(p).controlled_cards
         ]_vars

\* A first flip has looked 29 times at a card that another player controls.
C12_Witness ==
    \E p \in Players :
        /\ pc[p] = "first"
        /\ Waited(wait_time[p]) = max_wait
        /\ grid[target[p]].controller \notin {None, p}

\* C13: a flip with a position on the board that starts while at most one
\* card is not removed renews the board in its first step: every card has
\* its original label and is face down, uncontrolled and not removed, the
\* registry holds nothing but the fresh entry of the flipping player, and the
\* version advances by one; a flip that starts with more cards left renews
\* nothing.  The snapshot a flip returns is the one of the board it leaves.
C13_RenewedBeforeFlip ==
    [][ \A p \in Players :
            /\ (pc[p] = "idle" /\ pc'[p] = "dispatch") =>
                   IF CountRemainingCards(grid) <= 1
                   THEN /\ \A pos \in Pos :
                               grid'[pos] = [label |-> initial_cards[pos[1] * cols + pos[2] + 1],
                                             face_up |-> FALSE, controller |-> None,
                                             removed |-> FALSE]
                        /\ DOMAIN players' = {p}
                        /\ players'[p] = PlayerState
                        /\ version' = version + 1
                        /\ target'[p] \in Pos
                   ELSE grid' = grid /\ version' = version
            /\ (result'.p = p /\ result'.op = "flip" /\ result'.error = "ok") =>
                   result'.snapshot = LookInternal(grid', p)
      ]_vars

\* The board has been renewed, and a flip has since returned the snapshot of
\* the board it left, with a card face up.
C13_Witness ==
    /\ renewals > 0
    /\ result.op = "flip" /\ result.error = "ok"
    /\ result.snapshot = LookInternal(grid, result.p)
    /\ \E pos \in Pos : grid[pos].face_up

\* C14: a map with the transform "from becomes to" gives every card that is
\* not removed the transform of its label and changes nothing else: face-up
\* flags, controllers, removed flags, the labels of the removed cards and
\* the registry are as before, and the version advances by exactly one.
C14_MapChangesLabelsOnly ==
    [][ result'.op = "map" =>
            /\ \E from \in Labels, to \in Labels :
                   \A pos \in Pos :
                       grid'[pos].label =
                           IF grid[pos].removed \/ grid[pos].label # from
                           THEN grid[pos].label ELSE to
            /\ \A pos \in Pos :
                   /\ grid'[pos].face_up = grid[pos].face_up
                   /\ grid'[pos].controller = grid[pos].controller
                   /\ grid'[pos].removed = grid[pos].removed
            /\ players' = players
            /\ version' = version + 1
      ]_vars

\* A map has just changed the label of a card while another card is removed
\* and a player holds cards.
C14_Witness ==
    /\ result.op = "map"
    /\ \E pos \in Pos : grid[pos].removed
    /\ \E pos \in Pos :
           ~grid[pos].removed /\ grid[pos].label # initial_cards[pos[1] * cols + pos[2] + 1]
    /\ \E p \in DOMAIN players : players[p].controlled_cards # <<>>

\* C15: under a fair event loop every watch call in flight ends; a watch
\* call never raises; it ends only when the version differs from the one
\* read at its start or its polls have used up the timeout; and it returns
\* the snapshot of the board at that moment, rendered for the watching
\* player, without changing the board.
C15_WatchReturns ==
    /\ \A p \in Players : (pc[p] = "watch") ~> (pc[p] = "idle")
    /\ [][ \A p \in Players :
               /\ (pc[p] = "watch" /\ pc'[p] = "idle") =>
                      \/ version # start_version[p]
                      \/ elapsed[p] + watch_poll_interval >= timeout[p]
               /\ (pc[p] = "watch" /\ pc'[p] = "idle") => (result'.p = p /\ result'.op = "watch")
               /\ (result'.p = p /\ result'.op = "watch") =>
                      /\ result'.error = "ok"
                      /\ result'.snapshot = LookInternal(grid', p)
                      /\ pc'[p] = "idle"
                      /\ grid' = grid /\ players' = players /\ version' = version
         ]_vars

\* A watch call sees at a poll, before its timeout, that the version has
\* changed since it started.
C15_Witness ==
    \E p \in Players :
        /\ pc[p] = "watch"
        /\ version # start_version[p]
        /\ elapsed[p] + watch_poll_interval < timeout[p]

\* C16: a look leaves the grid, the registry (no entry is created for the
\* player) and the version as they are and returns the snapshot of that
\* board; a look that directly follows a look of the same player returns the
\* same snapshot.
C16_LookChangesNothing ==
    [][ result'.op = "look" =>
            /\ grid' = grid
            /\ players' = players
            /\ version' = version
            /\ pc' = pc
            /\ result'.error = "ok"
            /\ result'.snapshot = LookInternal(grid, result'.p)
            /\ (result.op = "look" /\ result.p = result'.p) =>
                   result'.snapshot = result.snapshot
      ]_vars

\* A player that has no entry in the registry has just looked at a board
\* with a card face up.
C16_Witness ==
    /\ result.op = "look"
    /\ result.p \notin DOMAIN players
    /\ \E pos \in Pos : grid[pos].face_up

C18_SnapshotFormat ==
    /\ \A p \in Players :
           LET snap == LookInternal(grid, p)
           IN  /\ Len(snap) = 1 + rows * cols
               /\ snap[1] = "2x2"
               /\ \A r \in 0 .. rows - 1, c \in 0 .. cols - 1 :
                      LET card == grid[<<r, c>>]
                          token == snap[1 + (r * cols + c) + 1]
                      IN  /\ card.removed => token = "none"
                          /\ (~card.removed /\ ~card.face_up) => token = "down"
                          /\ (~card.removed /\ card.face_up /\ card.controller = p) =>
                                 token = "my " \o card.label
                          /\ (~card.removed /\ card.face_up /\ card.controller # p) =>
                                 token = "up " \o card.label
               /\ (version = 0 /\ DOMAIN players = {}) =>
                      \A i \in 2 .. Len(snap) : snap[i] = "down"
    /\ result.error = "ok" => result.snapshot = LookInternal(grid, result.p)

\* A call has just returned a snapshot with a removed card, a face-down card
\* and a card of the caller.
C18_Witness ==
    /\ result.error = "ok"
    /\ \E i, j, k \in 2 .. 1 + rows * cols :
           /\ result.snapshot[i] = "none"
           /\ result.snapshot[j] = "down"
           /\ result.snapshot[k] \in {"my A", "my B"}

\* C19: a flip goes on to its first lock section only with a position on
\* the board; a flip with a row or column outside the board fails with the
\* invalid-position error and changes no card, no entry of the registry and
\* not the version, creates no entry, renews nothing and starts nothing.
C19_InvalidFlipChangesNothing ==
    [][ \A p \in Players :
            /\ (pc[p] = "idle" /\ pc'[p] = "dispatch") => target'[p] \in Pos
            /\ (result'.p = p /\ result'.op = "flip" /\ result'.error = "InvalidPosition") =>
                   /\ grid' = grid
                   /\ players' = players
                   /\ version' = version
                   /\ renewals' = renewals
                   /\ pc' = pc
                   /\ target' = target
      ]_vars

\* A player without an entry in the registry has just flipped a position
\* outside the board while at most one card is left.
C19_Witness ==
    /\ result.op = "flip"
    /\ result.error = "InvalidPosition"
    /\ result.p \notin DOMAIN players
    /\ CountRemainingCards(grid) <= 1

\* C20: once a player that held two cards has released them at the start
\* of its flip, the next step is the first look of that flip at its target:
\* no step of another call (a lock section of another flip, a map, a look or
\* a watch returning a snapshot) comes between the two.
C20_DischargeAndTakeAtOnce ==
    [][ \A p \in Players :
            (/\ pc[p] = "first"
             /\ wait_time[p] = 0
             /\ Len(StateOf(p).controlled_cards) = 2) => FirstPassOf(p)
      ]_vars

\* C21: the step that releases the two cards of a player at the start of
\* its flip leaves the player with no controlled card, and when a first flip
\* ends (with a snapshot, CardRemoved or Timeout) the player's controlled
\* cards are the target alone or nothing.
C21_PairReleasedBeforeTarget ==
    [][ \A p \in Players :
            /\ DischargeOf(p) => players'[p].controlled_cards = <<>>
            /\ (pc[p] = "first" /\ pc'[p] = "idle") =>
                   players'[p].controlled_cards \in {<<>>, <<target[p]>>}
      ]_vars

\* C22: a pass of a first flip that finds its target not removed and either
\* face down or face up with no controller ends the call at once with a
\* snapshot: the card is face up and controlled by the flipping player, the
\* player's controlled cards are that position alone, the version is greater
\* than before, and the snapshot shows the card as "my <label>".
C22_FirstFlipTakesFreeCard ==
    [][ \A p \in Players :
            (/\ FirstPassOf(p)
             /\ ~grid[target[p]].removed
             /\ (~grid[target[p]].face_up \/ grid[target[p]].controller = None)) =>
                /\ pc'[p] = "idle"
                /\ wait_time'[p] = 0
                /\ grid'[target[p]].face_up
                /\ grid'[target[p]].controller = p
                /\ ~grid'[target[p]].removed
                /\ players'[p].controlled_cards = <<target[p]>>
                /\ version' > version
                /\ result' = Result(p, "flip", "ok", grid')
                /\ result'.snapshot[1 + (target[p][1] * cols + target[p][2]) + 1] =
                       "my " \o grid[target[p]].label
      ]_vars

\* A first flip has just returned with a card that was face up and
\* uncontrolled: the card is one of the last unmatched pair of another
\* player, whose other card still lies face up.
C22_Witness ==
    /\ result.op = "flip" /\ result.error = "ok"
    /\ result.p \in DOMAIN players
    /\ Len(players[result.p].controlled_cards) = 1
    /\ LET pos == players[result.p].controlled_cards[1]
       IN  /\ grid[pos].controller = result.p
           /\ result.snapshot[1 + (pos[1] * cols + pos[2]) + 1] = "my " \o grid[pos].label
           /\ \E q \in DOMAIN players \ {result.p} :
                  /\ pos \in Range(players[q].previous_controled_cards)
                  /\ \A other \in Range(players[q].previous_controled_cards) \ {pos} :
                         grid[other].face_up /\ grid[other].controller = None

\* C23: a second flip of a player that controls one card, on a different
\* card that is not removed and has no controller and whose label equals the
\* label of the first, leaves both cards face up and controlled by the
\* player, the player's controlled cards [first, second] with matched true,
\* and the version greater than before.
C23_SecondFlipMatch ==
    [][ \A p \in Players :
            (/\ SecondOnOther(p)
             /\ ~grid[target[p]].removed
             /\ grid[target[p]].controller = None
             /\ grid[FirstOf(p)].label = grid[target[p]].label) =>
                /\ grid'[FirstOf(p)].face_up /\ grid'[FirstOf(p)].controller = p
                /\ grid'[target[p]].face_up /\ grid'[target[p]].controller = p
                /\ players'[p].controlled_cards = <<FirstOf(p), target[p]>>
                /\ players'[p].matched
                /\ version' > version
      ]_vars

\* C24: a second flip of a player that controls one card, on a different
\* card that is not removed and has no controller and whose label differs
\* from the label of the first, leaves both cards face up with no
\* controller, the player with no controlled card and matched false, and the
\* version greater than before.
C24_SecondFlipNoMatch ==
    [][ \A p \in Players :
            (/\ SecondOnOther(p)
             /\ ~grid[target[p]].removed
             /\ grid[target[p]].controller = None
             /\ grid[FirstOf(p)].label # grid[target[p]].label) =>
                /\ grid'[FirstOf(p)].face_up /\ grid'[FirstOf(p)].controller = None
                /\ grid'[target[p]].face_up /\ grid'[target[p]].controller = None
                /\ players'[p].controlled_cards = <<>>
                /\ ~players'[p].matched
                /\ version' > version
      ]_vars

\* C25: a second flip of a player that controls one card, on a card that is
\* removed or that is face up and controlled by another player, ends the
\* call at once with CardRemoved, respectively ControlledByOther; the first
\* card has no controller and is face up, the player has no controlled card
\* and matched false, the version is greater than before, and the target
\* card is as it was.
C25_SecondFlipFails ==
    [][ \A p \in Players :
            (/\ SecondOnOther(p)
             /\ \/ grid[target[p]].removed
                \/ grid[target[p]].face_up /\ grid[target[p]].controller \notin {None, p}) =>
                /\ result' = Result(p, "flip",
                                    IF grid[target[p]].removed THEN "CardRemoved"
                                    ELSE "ControlledByOther", grid')
                /\ grid'[FirstOf(p)].controller = None
                /\ grid'[FirstOf(p)].face_up
                /\ players'[p].controlled_cards = <<>>
                /\ ~players'[p].matched
                /\ version' > version
                /\ grid'[target[p]] = grid[target[p]]
      ]_vars

\* C26: no position is listed in the controlled cards of two different
\* players.
C26_ControlExclusive ==
    \A p \in DOMAIN players, q \in DOMAIN players :
        p # q =>
            Range(players[p].controlled_cards) \cap Range(players[q].controlled_cards) = {}

\* C27: every card that has a controller is listed in the controlled cards
\* of that player.
C27_NoControlLeaked ==
    \A pos \in Pos :
        grid[pos].controller # None =>
            /\ grid[pos].controller \in DOMAIN players
            /\ pos \in Range(players[grid[pos].controller].controlled_cards)

====
